---- MODULE Spec2Model ----
(***************************************************************************)
(* Model of analisis_sent.py: the gauge builder grafico_kpi_sentimiento    *)
(* and the __main__ presentation driver.                                   *)
(*                                                                         *)
(* Python evaluates the percentages and the thresholds in IEEE-754 binary64*)
(* arithmetic, so the model carries its own binary64 numbers: a sign, a    *)
(* 53-bit significand (a natural number m with 2^52 <= m < 2^53, kept as   *)
(* limbs) and a binary exponent, with round-to-nearest-even after every    *)
(* operation.  Zero is the empty significand and keeps its sign.           *)
(***************************************************************************)
EXTENDS Integers, Sequences, FiniteSets, TLC

(***************************************************************************)
(* Natural numbers of arbitrary size as little-endian sequences of limbs   *)
(* in base 2^13, without leading zero limbs.                               *)
(***************************************************************************)
LimbBits == 13

Base == 2 ^ LimbBits

Abs(n) == IF n < 0 THEN -n ELSE n

Sign(n) == IF n < 0 THEN -1 ELSE 1

RECURSIVE NatBig(_)
NatBig(n) == IF n = 0 THEN <<>> ELSE <<n % Base>> \o NatBig(n \div Base)

RECURSIVE BigNat(_)
BigNat(a) == IF a = <<>> THEN 0 ELSE a[1] + Base * BigNat(Tail(a))

RECURSIVE Strip(_)
Strip(a) ==
    IF a = <<>> THEN <<>>
    ELSE IF a[Len(a)] # 0 THEN a
    ELSE Strip(SubSeq(a, 1, Len(a) - 1))

Limb(a, i) == IF i >= 1 /\ i <= Len(a) THEN a[i] ELSE 0

RECURSIVE NatBitLen(_)
NatBitLen(n) == IF n = 0 THEN 0 ELSE 1 + NatBitLen(n \div 2)

\* number of significant bits of a
BitLen(a) == IF a = <<>> THEN 0 ELSE LimbBits * (Len(a) - 1) + NatBitLen(a[Len(a)])

RECURSIVE MulCarry(_, _, _, _)
MulCarry(a, c, i, carry) ==
    IF i > Len(a) THEN NatBig(carry)
    ELSE LET v == a[i] * c + carry
         IN  <<v % Base>> \o MulCarry(a, c, i + 1, v \div Base)

\* a * c for 0 <= c < 2^17
BigMulSmall(a, c) == Strip(MulCarry(a, c, 1, 0))

RECURSIVE AddCarry(_, _, _, _)
AddCarry(a, b, i, carry) ==
    IF i > Len(a) /\ i > Len(b) THEN NatBig(carry)
    ELSE LET v == Limb(a, i) + Limb(b, i) + carry
         IN  <<v % Base>> \o AddCarry(a, b, i + 1, v \div Base)

BigAdd(a, b) == Strip(AddCarry(a, b, 1, 0))

RECURSIVE SubBorrow(_, _, _, _)
SubBorrow(a, b, i, borrow) ==
    IF i > Len(a) THEN <<>>
    ELSE LET v == Limb(a, i) - Limb(b, i) - borrow
         IN  <<v % Base>> \o SubBorrow(a, b, i + 1, IF v < 0 THEN 1 ELSE 0)

\* a - b for a >= b
BigSub(a, b) == Strip(SubBorrow(a, b, 1, 0))

RECURSIVE CmpFrom(_, _, _)
CmpFrom(a, b, i) ==
    IF i = 0 THEN 0
    ELSE IF a[i] > b[i] THEN 1
    ELSE IF a[i] < b[i] THEN -1
    ELSE CmpFrom(a, b, i - 1)

\* -1, 0, 1 as a < b, a = b, a > b
BigCmp(a, b) ==
    IF Len(a) > Len(b) THEN 1
    ELSE IF Len(a) < Len(b) THEN -1
    ELSE CmpFrom(a, b, Len(a))

\* a * 2^d
Shl(a, d) ==
    IF a = <<>> THEN <<>>
    ELSE [i \in 1..(d \div LimbBits) |-> 0] \o BigMulSmall(a, 2 ^ (d % LimbBits))

\* floor(a / 2^k)
Shr(a, k) ==
    LET q == k \div LimbBits
        r == k % LimbBits
    IN  IF q >= Len(a) THEN <<>>
        ELSE Strip([i \in 1..(Len(a) - q) |->
                      (a[q + i] \div (2 ^ r))
                      + (Limb(a, q + i + 1) % (2 ^ r)) * (2 ^ (LimbBits - r))])

\* bit number k of a, the lowest bit being number 1
BitAt(a, k) ==
    LET q == (k - 1) \div LimbBits
        r == (k - 1) % LimbBits
    IN  (Limb(a, q + 1) \div (2 ^ r)) % 2

\* some bit of a below bit number k is set
AnyBelow(a, k) ==
    LET q == (k - 1) \div LimbBits
        r == (k - 1) % LimbBits
    IN  \/ \E i \in 1..q : Limb(a, i) # 0
        \/ Limb(a, q + 1) % (2 ^ r) # 0

\* a / 2^k rounded to the nearest integer, ties to even
ShrRound(a, k) ==
    IF k = 0 THEN a
    ELSE LET kept == Shr(a, k)
             up   == BitAt(a, k) = 1 /\ (AnyBelow(a, k) \/ BitAt(kept, 1) = 1)
         IN  IF up THEN BigAdd(kept, <<1>>) ELSE kept

(***************************************************************************)
(* binary64 numbers.                                                       *)
(***************************************************************************)
Precision == 53

FZero(s) == [sgn |-> s, mant |-> <<>>, exp |-> 0]

IsZero(x) == x.mant = <<>>

\* the binary64 nearest to s * a * 2^e (ties to even)
RoundToDouble(s, a, e) ==
    LET n == BitLen(a)
    IN  IF n = 0 THEN FZero(s)
        ELSE IF n <= Precision
             THEN [sgn |-> s, mant |-> Shl(a, Precision - n),
                   exp |-> e - (Precision - n)]
        ELSE LET k == n - Precision
                 r == ShrRound(a, k)
             IN  IF BitLen(r) > Precision
                 THEN [sgn |-> s, mant |-> Shr(r, 1), exp |-> e + k + 1]
                 ELSE [sgn |-> s, mant |-> r, exp |-> e + k]

FromInt(k) == RoundToDouble(Sign(k), NatBig(Abs(k)), 0)

\* the long division computes floor(|p| * Base^QuotientLimbs / |t|)
QuotientLimbs == 6

RECURSIVE LongDiv(_, _, _, _)
LongDiv(num, t, i, rem) ==
    IF i = 0 THEN <<IF rem = 0 THEN 0 ELSE 1>>
    ELSE LET v == rem * Base + num[i]
         IN  LongDiv(num, t, i - 1, v % t) \o <<v \div t>>

\* int / int for |t| < 2^17: Python's true division, correctly rounded
FDiv(p, t) ==
    IF p = 0 THEN FZero(Sign(t))
    ELSE LET num == [i \in 1..QuotientLimbs |-> 0] \o NatBig(Abs(p))
             qs  == LongDiv(num, Abs(t), Len(num), 0)
             \* twice the quotient, plus one when the division left a remainder
             a   == BigAdd(BigMulSmall(Strip(Tail(qs)), 2), Strip(<<qs[1]>>))
         IN  RoundToDouble(Sign(p) * Sign(t), a, 0 - QuotientLimbs * LimbBits - 1)

\* x * c for a float c whose value is the integer c, |c| < 2^17
FMulInt(x, c) ==
    IF IsZero(x) \/ c = 0 THEN FZero(x.sgn * Sign(c))
    ELSE RoundToDouble(x.sgn * Sign(c), BigMulSmall(x.mant, Abs(c)), x.exp)

FNeg(x) == [x EXCEPT !.sgn = 0 - x.sgn]

\* comparison of the magnitudes of two non-zero floats
MagCmp(x, y) ==
    IF x.exp > y.exp THEN 1
    ELSE IF x.exp < y.exp THEN -1
    ELSE BigCmp(x.mant, y.mant)

FCmp(x, y) ==
    IF IsZero(x) /\ IsZero(y) THEN 0
    ELSE IF IsZero(x) THEN 0 - y.sgn
    ELSE IF IsZero(y) THEN x.sgn
    ELSE IF x.sgn # y.sgn THEN x.sgn
    ELSE x.sgn * MagCmp(x, y)

FGE(x, y) == FCmp(x, y) >= 0

FAdd(x, y) ==
    IF IsZero(x) /\ IsZero(y)
    THEN FZero(IF x.sgn = -1 /\ y.sgn = -1 THEN -1 ELSE 1)
    ELSE IF IsZero(x) THEN y
    ELSE IF IsZero(y) THEN x
    ELSE LET emin == IF x.exp < y.exp THEN x.exp ELSE y.exp
             ax   == Shl(x.mant, x.exp - emin)
             ay   == Shl(y.mant, y.exp - emin)
             c    == BigCmp(ax, ay)
         IN  IF x.sgn = y.sgn THEN RoundToDouble(x.sgn, BigAdd(ax, ay), emin)
             ELSE IF c = 0 THEN FZero(1)
             ELSE IF c > 0 THEN RoundToDouble(x.sgn, BigSub(ax, ay), emin)
             ELSE RoundToDouble(y.sgn, BigSub(ay, ax), emin)

FSub(x, y) == FAdd(x, FNeg(y))

\* the float literal 0.7: the binary64 nearest to 7/10
F07 == FDiv(7, 10)

\* format(x, '.1f'): the sign and the number of tenths nearest to |x|
Fmt1(x) ==
    IF IsZero(x) THEN [neg |-> x.sgn = -1, tenths |-> 0]
    ELSE LET a == BigMulSmall(x.mant, 10)
             r == IF x.exp >= 0 THEN Shl(a, x.exp) ELSE ShrRound(a, 0 - x.exp)
         IN  [neg |-> x.sgn = -1, tenths |-> BigNat(r)]

(***************************************************************************)
(* grafico_kpi_sentimiento                                                 *)
(***************************************************************************)
None == [some |-> FALSE]

Some(v) == [some |-> TRUE, val |-> v]

DefaultColores == <<"#e74c3c", "#f39c12", "#2ecc71">>

\* colores_gauge after the "is None" default
ColoresEfectivos(colores) == IF colores.some THEN colores.val ELSE DefaultColores

Total(p, n, u) == p + n + u

\* variant: the guard also rejects negative totals
EmptyInputNonPositive(total) == total <= 0

EmptyInput(total) == total = 0

\* variant: integer division, (count * 100) // total
PorcentajeFloorDiv(count, total) == FromInt((count * 100) \div total)

\* variant: the ratio scaled by 1000
PorcentajeScale(count, total) == FMulInt(FDiv(count, total), 1000)

\* (count / total) * 100
Porcentaje(count, total) == FMulInt(FDiv(count, total), 100)

\* the index into colores_gauge that the if/elif/else ladder selects
TierIndex(pct, objetivo) ==
    IF FGE(pct, FromInt(objetivo)) THEN 2
    ELSE IF FGE(pct, FMulInt(F07, objetivo)) THEN 1
    ELSE 0

\* variant: the last element is out of reach
HasIndexShort(list, i) == i >= 0 /\ i < Len(list) - 1

\* list[i] with Python's 0-based index raises IndexError unless this holds
HasIndex(list, i) == i >= 0 /\ i < Len(list)

Item(list, i) == list[i + 1]

Number(color_barra) ==
    [suffix |-> "%", font |-> [size |-> 50, color |-> color_barra]]

\* variant: the reference is clamped to the axis range
DeltaClamped(objetivo, colores) ==
    [reference  |-> IF objetivo < 0 THEN 0 ELSE IF objetivo > 100 THEN 100 ELSE objetivo,
     increasing |-> [color |-> Item(colores, 2)],
     decreasing |-> [color |-> Item(colores, 0)],
     suffix     |-> "%",
     font       |-> [size |-> 20]]

Delta(objetivo, colores) ==
    [reference  |-> objetivo,
     increasing |-> [color |-> Item(colores, 2)],
     decreasing |-> [color |-> Item(colores, 0)],
     suffix     |-> "%",
     font       |-> [size |-> 20]]

Steps ==
    << [range |-> <<0, 40>>,   color |-> "rgba(231, 76, 60, 0.2)"],
       [range |-> <<40, 70>>,  color |-> "rgba(243, 156, 18, 0.2)"],
       [range |-> <<70, 100>>, color |-> "rgba(46, 204, 113, 0.2)"] >>

\* variant: the zones end at 0.7 * objetivo and at objetivo
GaugeZonesFromTarget(color_barra, objetivo) ==
    [axis        |-> [range |-> <<0, 100>>, tickwidth |-> 2, tickcolor |-> "darkgray",
                      tickmode |-> "linear", tick0 |-> 0, dtick |-> 20],
     bar         |-> [color |-> color_barra, thickness |-> "0.75"],
     bgcolor     |-> "white",
     borderwidth |-> 3,
     bordercolor |-> "#34495e",
     steps       |-> << [range |-> <<0, (7 * objetivo) \div 10>>, color |-> Steps[1].color],
                        [range |-> <<(7 * objetivo) \div 10, objetivo>>,
                         color |-> Steps[2].color],
                        [range |-> <<objetivo, 100>>, color |-> Steps[3].color] >>,
     threshold   |-> [line |-> [color |-> "#e74c3c", width |-> 4],
                      thickness |-> "0.75",
                      value |-> objetivo]]

Gauge(color_barra, objetivo) ==
    [axis        |-> [range |-> <<0, 100>>, tickwidth |-> 2, tickcolor |-> "darkgray",
                      tickmode |-> "linear", tick0 |-> 0, dtick |-> 20],
     bar         |-> [color |-> color_barra, thickness |-> "0.75"],
     bgcolor     |-> "white",
     borderwidth |-> 3,
     bordercolor |-> "#34495e",
     steps       |-> Steps,
     threshold   |-> [line |-> [color |-> "#e74c3c", width |-> 4],
                      thickness |-> "0.75",
                      value |-> objetivo]]

Indicator(pct_positivo, titulo_, color_barra, objetivo, colores) ==
    [mode   |-> "gauge+number+delta",
     value  |-> pct_positivo,
     domain |-> [x |-> <<"0", "1">>, y |-> <<"0.1", "1">>],
     title  |-> [text |-> titulo_, font |-> [size |-> 26, color |-> "#2c3e50"]],
     number |-> Number(color_barra),
     delta  |-> Delta(objetivo, colores),
     gauge  |-> Gauge(color_barra, objetivo)]

\* the f-string of the breakdown box: the values it interpolates
DesgloseTexto(total, p, n, u, pct_p, pct_n, pct_u, objetivo) ==
    [total     |-> total,
     positivos |-> p, pct_positivo |-> Fmt1(pct_p),
     negativos |-> n, pct_negativo |-> Fmt1(pct_n),
     neutros   |-> u, pct_neutro   |-> Fmt1(pct_u),
     objetivo  |-> objetivo]

Annotation(texto) ==
    [text |-> texto, xref |-> "paper", yref |-> "paper", x |-> "0.5", y |-> "-0.25",
     showarrow |-> FALSE, font |-> [size |-> 14, color |-> "#34495e"],
     align |-> "center", bgcolor |-> "rgba(255, 255, 255, 0.9)",
     bordercolor |-> "#bdc3c7", borderwidth |-> 2, borderpad |-> 10]

\* variant: the box is attached whatever the flag says
AnnotationsAlways(mostrar, texto) == <<Annotation(texto)>>

\* fig.layout.annotations after the "if mostrar_desglose" block
Annotations(mostrar, texto) == IF mostrar THEN <<Annotation(texto)>> ELSE <<>>

Layout ==
    [height |-> 550, margin |-> [l |-> 40, r |-> 40, t |-> 80, b |-> 150],
     paper_bgcolor |-> "white", font |-> [family |-> "Arial, sans-serif"]]

NoFig == [kind |-> "none"]

NoLocals == [kind |-> "none"]

\* The whole call: what it raises or returns, and the locals it computed.
Grafico(p, n, u, objetivo, titulo_, mostrar, colores_arg) ==
    LET colores == ColoresEfectivos(colores_arg)
        total   == Total(p, n, u)
    IN  IF EmptyInput(total)
        THEN [error |-> "ValueError", fig |-> NoFig, locals |-> NoLocals]
        ELSE
        LET pct_positivo == Porcentaje(p, total)
            pct_negativo == Porcentaje(n, total)
            pct_neutro   == Porcentaje(u, total)
            tier         == TierIndex(pct_positivo, objetivo)
            locals_      == [kind |-> "locals", total |-> total,
                             pct_positivo |-> pct_positivo,
                             pct_negativo |-> pct_negativo,
                             pct_neutro |-> pct_neutro]
        IN  IF ~HasIndex(colores, tier) \/ ~HasIndex(colores, 2) \/ ~HasIndex(colores, 0)
            THEN [error |-> "IndexError", fig |-> NoFig, locals |-> locals_]
            ELSE
            LET color_barra == Item(colores, tier)
                texto == DesgloseTexto(total, p, n, u, pct_positivo, pct_negativo,
                                       pct_neutro, objetivo)
            IN  [error  |-> "none",
                 fig    |-> [kind |-> "Figure",
                             data |-> Indicator(pct_positivo, titulo_, color_barra,
                                                objetivo, colores),
                             annotations |-> Annotations(mostrar, texto),
                             layout |-> Layout],
                 locals |-> locals_]

(***************************************************************************)
(* The __main__ driver.                                                    *)
(***************************************************************************)
TITULO_GRAFICO == "Analisis de Sentimiento - Redes Sociales"

TituloDefault == "KPI: Sentimiento Positivo"

\* variant: the target counts as reached only when exceeded
EstadoStrict(porcentaje_actual, objetivo) ==
    IF FCmp(porcentaje_actual, FromInt(objetivo)) > 0
    THEN [estado |-> "OBJETIVO ALCANZADO", color_estado |-> "verde"]
    ELSE IF FGE(porcentaje_actual, FMulInt(F07, objetivo))
    THEN [estado |-> "Cerca del objetivo", color_estado |-> "amarillo"]
    ELSE [estado |-> "Por debajo del objetivo", color_estado |-> "rojo"]

\* "Determinar estado"
Estado(porcentaje_actual, objetivo) ==
    IF FGE(porcentaje_actual, FromInt(objetivo))
    THEN [estado |-> "OBJETIVO ALCANZADO", color_estado |-> "verde"]
    ELSE IF FGE(porcentaje_actual, FMulInt(F07, objetivo))
    THEN [estado |-> "Cerca del objetivo", color_estado |-> "amarillo"]
    ELSE [estado |-> "Por debajo del objetivo", color_estado |-> "rojo"]

\* what the driver prints before it calls the builder
Consola(p, n, u, objetivo) ==
    LET total == p + n + u
        porcentaje_actual == Porcentaje(p, total)
    IN  [kind |-> "printed", positivos |-> p, negativos |-> n, neutros |-> u,
         total |-> total, objetivo |-> objetivo,
         resultado  |-> Fmt1(porcentaje_actual),
         estado     |-> Estado(porcentaje_actual, objetivo).estado,
         diferencia |-> Fmt1(FSub(porcentaje_actual, FromInt(objetivo)))]

NoConsola == [kind |-> "none"]

(***************************************************************************)
(* Inputs.                                                                 *)
(***************************************************************************)
MaxCount == 4

MaxPosWide == 29

MaxNegWide == 21

MaxNeuWide == 0

Objetivos == {-20, 0, 50, 58, 70, 100, 120}

MIS_COLORES == <<"#ff6b6b", "#ffd93d", "#6bcf7f">>

ColoresArgs ==
    {None, Some(MIS_COLORES), Some(<<"#ff6b6b", "#ffd93d">>),
     Some(MIS_COLORES \o <<"#34495e">>)}

VARIABLES caller, pc, positivos, negativos, neutros, objetivo_positivo, titulo,
          mostrar_desglose, colores_gauge, locals, fig, error, consola

vars == <<caller, pc, positivos, negativos, neutros, objetivo_positivo, titulo,
          mostrar_desglose, colores_gauge, locals, fig, error, consola>>

args == <<positivos, negativos, neutros, objetivo_positivo, titulo,
          mostrar_desglose, colores_gauge>>

Fresh ==
    /\ locals = NoLocals
    /\ fig = NoFig
    /\ error = "none"
    /\ consola = NoConsola

\* a direct call of the builder with arbitrary arguments
InitCall(P, N, U) ==
    /\ caller = "call"
    /\ pc = "call"
    /\ positivos \in P
    /\ negativos \in N
    /\ neutros \in U
    /\ objetivo_positivo \in Objetivos
    /\ titulo = TituloDefault

\* a run of the script with its constants set to some values
InitMain(P, N, U) ==
    /\ caller = "main"
    /\ pc = "main"
    /\ positivos \in P
    /\ negativos \in N
    /\ neutros \in U
    /\ objetivo_positivo \in Objetivos
    /\ titulo = TITULO_GRAFICO
    /\ mostrar_desglose = TRUE
    /\ colores_gauge = None

Init ==
    /\ Fresh
    /\ \/ /\ InitCall((-1)..MaxCount, (-1)..MaxCount, (-1)..MaxCount)
          /\ mostrar_desglose \in BOOLEAN
          /\ colores_gauge \in ColoresArgs
       \/ InitMain((-1)..MaxCount, (-1)..MaxCount, (-1)..MaxCount)

InitWide ==
    /\ Fresh
    /\ \/ /\ InitCall(0..MaxPosWide, 0..MaxNegWide, 0..MaxNeuWide)
          /\ mostrar_desglose = TRUE
          /\ colores_gauge = None
       \/ InitMain(0..MaxPosWide, 0..MaxNegWide, 0..MaxNeuWide)

\* lines 179-209: the driver computes and prints its summary
MainStatus ==
    /\ pc = "main"
    /\ IF positivos + negativos + neutros = 0
       THEN /\ pc' = "raised"
            /\ error' = "ZeroDivisionError"
            /\ consola' = consola
       ELSE /\ pc' = "call"
            /\ error' = error
            /\ consola' = Consola(positivos, negativos, neutros, objetivo_positivo)
    /\ UNCHANGED <<caller, args, locals, fig>>

\* lines 5-150: one call of grafico_kpi_sentimiento
GraficoKpiSentimiento ==
    /\ pc = "call"
    /\ LET r == Grafico(positivos, negativos, neutros, objetivo_positivo, titulo,
                        mostrar_desglose, colores_gauge)
       IN  /\ error' = r.error
           /\ fig' = r.fig
           /\ locals' = r.locals
           /\ pc' = IF r.error = "none" THEN "returned" ELSE "raised"
    /\ UNCHANGED <<caller, args, consola>>

\* line 223: fig.show()
MainShow ==
    /\ pc = "returned"
    /\ caller = "main"
    /\ pc' = "shown"
    /\ UNCHANGED <<caller, args, locals, fig, error, consola>>

Next == MainStatus \/ GraficoKpiSentimiento \/ MainShow

Spec == Init /\ [][Next]_vars

SpecWide == InitWide /\ [][Next]_vars

(***************************************************************************)
(* Properties.                                                             *)
(***************************************************************************)
\* the builder has been called and has raised or returned
BuilderDone == pc \in {"returned", "shown"} \/ (pc = "raised" /\ error # "ZeroDivisionError")

HasFig == fig # NoFig

SumOfCounts == positivos + negativos + neutros

NonNegativeCounts == positivos >= 0 /\ negativos >= 0 /\ neutros >= 0

\* the colour scheme in effect for the call
Scheme == ColoresEfectivos(colores_gauge)

\* C1: the builder raises ValueError exactly when positivos + negativos + neutros
\* is 0, and a call that raises it produces no figure.
C1_ValueErrorIffZeroTotal ==
    BuilderDone =>
        /\ (error = "ValueError") <=> (SumOfCounts = 0)
        /\ error = "ValueError" => (pc = "raised" /\ fig = NoFig)

\* a call with counts that are not all zero but cancel out has raised ValueError
C1_Witness ==
    /\ BuilderDone
    /\ error = "ValueError"
    /\ positivos # 0
    /\ fig = NoFig

\* the tier the ladder selects when it is evaluated on the exact percentage
\* 100 * p / total and the exact threshold 0.7 * objetivo (total > 0)
ExactTier(p, total, objetivo) ==
    IF 100 * p >= objetivo * total THEN 2
    ELSE IF 1000 * p >= 7 * objetivo * total THEN 1
    ELSE 0

\* C2: for total > 0 the bar colour is the scheme's colour of the tier of the
\* ladder: pct_positive >= target is high (index 2), else pct_positive >=
\* 0.7 * target is medium (index 1), else low (index 0); a percentage exactly
\* on a boundary is in the higher tier.
C2_TierFollowsLadder ==
    (HasFig /\ SumOfCounts > 0) =>
        fig.data.gauge.bar.color
            = Item(Scheme, ExactTier(positivos, SumOfCounts, objetivo_positivo))

\* |s - 100| <= 1e-9 * 100, decided exactly on the significand of s - 100
WithinTolerance(s) ==
    LET d == FSub(s, FromInt(100))
    IN  \/ IsZero(d)
        \/ /\ d.exp < 0
           /\ BigCmp(BigMulSmall(BigMulSmall(BigMulSmall(d.mant, 1000), 1000), 10),
                     Shl(<<1>>, 0 - d.exp)) <= 0

SumOfPercentages ==
    FAdd(FAdd(locals.pct_positivo, locals.pct_negativo), locals.pct_neutro)

PercentagesComputed == locals # NoLocals /\ NonNegativeCounts /\ SumOfCounts > 0

\* C3 as stated: for non-negative counts with a positive sum the three
\* percentages sum to 100.
C3_SumIsExactly100 ==
    PercentagesComputed => FCmp(SumOfPercentages, FromInt(100)) = 0

\* C3 amended: for non-negative counts with a positive sum the three
\* percentages sum to 100 within a relative tolerance of 1e-9.
C3_SumIs100WithinTolerance ==
    PercentagesComputed => WithinTolerance(SumOfPercentages)

\* three percentages, none of them 0, whose float sum is not 100
C3_Witness ==
    /\ PercentagesComputed
    /\ positivos > 0 /\ negativos > 0 /\ neutros > 0
    /\ FCmp(SumOfPercentages, FromInt(100)) # 0

\* C4 as stated: with a non-zero sum of counts the builder returns a figure
\* and raises nothing, whatever the counts, the target and the colour list are.
C4_ZeroTotalOnlyFailure ==
    (BuilderDone /\ SumOfCounts # 0) => (error = "none" /\ HasFig)

\* C4 amended: with a non-zero sum of counts and a colour list that is absent
\* or has at least 3 entries the builder returns a figure and raises nothing;
\* a colour list with fewer than 3 entries raises IndexError.
C4_ZeroTotalOnlyFailureWithThreeColours ==
    (BuilderDone /\ SumOfCounts # 0) =>
        IF Len(Scheme) >= 3
        THEN error = "none" /\ HasFig
        ELSE error = "IndexError" /\ fig = NoFig

\* a figure was returned for a negative count, a target above 100 and a
\* colour list of 4 entries
C4_Witness ==
    /\ HasFig
    /\ error = "none"
    /\ negativos < 0
    /\ objetivo_positivo > 100
    /\ Len(Scheme) = 4

\* the colour '#rrggbb' at opacity 0.2
Tint(color) ==
    CASE color = "#e74c3c" -> "rgba(231, 76, 60, 0.2)"
      [] color = "#f39c12" -> "rgba(243, 156, 18, 0.2)"
      [] color = "#2ecc71" -> "rgba(46, 204, 113, 0.2)"
      [] color = "#ff6b6b" -> "rgba(255, 107, 107, 0.2)"
      [] color = "#ffd93d" -> "rgba(255, 217, 61, 0.2)"
      [] color = "#6bcf7f" -> "rgba(107, 207, 127, 0.2)"
      [] OTHER -> "rgba(52, 73, 94, 0.2)"

\* C5: the three background zones of a returned figure are tinted with the
\* three colours of the colour scheme in effect, in order.
C5_ZonesUseScheme ==
    HasFig => \A i \in 1..3 : fig.data.gauge.steps[i].color = Tint(Scheme[i])

\* C6: in every returned figure the zones are [0,40], [40,70], [70,100], the
\* axis range is [0,100] and the tick interval is 20, whatever the inputs.
C6_ZonesAndAxisFixed ==
    HasFig =>
        /\ [i \in 1..3 |-> fig.data.gauge.steps[i].range]
               = << <<0, 40>>, <<40, 70>>, <<70, 100>> >>
        /\ fig.data.gauge.axis.range = <<0, 100>>
        /\ fig.data.gauge.axis.dtick = 20

\* a figure returned for a target that is neither 40 nor 70
C6_Witness == HasFig /\ objetivo_positivo = 120 /\ colores_gauge # None

InZeroHundred(x) == FGE(x, FromInt(0)) /\ FGE(FromInt(100), x)

\* C7: for non-negative counts with a positive sum each of the three
\* percentages, and the gauge value, lies in [0,100].
C7_PercentagesInRange ==
    PercentagesComputed =>
        /\ InZeroHundred(locals.pct_positivo)
        /\ InZeroHundred(locals.pct_negativo)
        /\ InZeroHundred(locals.pct_neutro)
        /\ HasFig => InZeroHundred(fig.data.value)

\* a figure whose value is 100 and whose other two percentages are 0
C7_Witness ==
    /\ PercentagesComputed
    /\ HasFig
    /\ FCmp(fig.data.value, FromInt(100)) = 0
    /\ IsZero(locals.pct_negativo)

WithoutAnnotations(f) == [f EXCEPT !.annotations = <<>>]

\* the figure the same call returns when only mostrar_desglose is negated
FigWithFlagNegated ==
    Grafico(positivos, negativos, neutros, objetivo_positivo, titulo,
            ~mostrar_desglose, colores_gauge).fig

\* C8: a returned figure has the breakdown annotation exactly when
\* mostrar_desglose is true; the annotation states the total, the three counts
\* and the target as passed in; the flag changes nothing else in the figure.
C8_AnnotationIffFlag ==
    HasFig =>
        /\ (Len(fig.annotations) = 1) <=> mostrar_desglose
        /\ (Len(fig.annotations) = 0) <=> ~mostrar_desglose
        /\ mostrar_desglose =>
              LET t == fig.annotations[1].text
              IN  /\ t.total = SumOfCounts
                  /\ t.positivos = positivos
                  /\ t.negativos = negativos
                  /\ t.neutros = neutros
                  /\ t.objetivo = objetivo_positivo
        /\ WithoutAnnotations(fig) = WithoutAnnotations(FigWithFlagNegated)

\* a figure returned without the annotation
C8_Witness == HasFig /\ ~mostrar_desglose /\ fig.annotations = <<>> /\ negativos > 0

\* C9: in a returned figure the threshold marker and the delta reference are
\* the target as passed in, the gauge value is pct_positivo, and the delta is
\* coloured with the scheme's colour 2 when increasing and 0 when decreasing.
C9_TargetAndDelta ==
    HasFig =>
        /\ fig.data.gauge.threshold.value = objetivo_positivo
        /\ fig.data.delta.reference = objetivo_positivo
        /\ fig.data.value = locals.pct_positivo
        /\ fig.data.delta.increasing.color = Scheme[3]
        /\ fig.data.delta.decreasing.color = Scheme[1]

\* a figure returned for a target above 100 with a caller-supplied scheme
C9_Witness ==
    /\ HasFig
    /\ objetivo_positivo > 100
    /\ colores_gauge = Some(MIS_COLORES)
    /\ fig.data.gauge.threshold.value = 120

\* the index of the tier that a status line of the driver names
EstadoTier(estado) ==
    CASE estado = "OBJETIVO ALCANZADO" -> 2
      [] estado = "Cerca del objetivo" -> 1
      [] estado = "Por debajo del objetivo" -> 0

\* C10: after a run of the script with a positive total, the status the
\* driver printed names the tier of the builder's bar colour, the difference
\* it printed is pct_positivo - objetivo, and in every returned figure the bar
\* and the number readout have the same colour.
C10_DriverAgreesWithBuilder ==
    /\ (caller = "main" /\ HasFig /\ SumOfCounts > 0) =>
          /\ fig.data.gauge.bar.color = Item(DefaultColores, EstadoTier(consola.estado))
          /\ consola.diferencia
                 = Fmt1(FSub(fig.data.value, FromInt(fig.data.delta.reference)))
    /\ HasFig => fig.data.gauge.bar.color = fig.data.number.font.color

\* the script printed "near the target" and showed its figure
C10_Witness ==
    /\ caller = "main"
    /\ pc = "shown"
    /\ SumOfCounts > 0
    /\ consola.estado = "Cerca del objetivo"
    /\ fig.data.gauge.bar.color = "#f39c12"

====
